---- MODULE Spec2Model ----
(***************************************************************************)
(* A model of _example/process_latex.py: the LaTeX to Markdown converter.  *)
(*                                                                         *)
(* Text is a sequence of one-character strings.  Every re.sub of the       *)
(* source is a pattern (a sequence of pattern elements) handed to Sub, a   *)
(* backtracking matcher with Python's priorities: leftmost match, greedy   *)
(* quantifiers longest first, lazy quantifiers shortest first.             *)
(***************************************************************************)
EXTENDS Naturals, Sequences, FiniteSets

----------------------------------------------------------------------------
(* Characters and character classes of the re module                       *)

BS == "\\"
NL == "\n"
TAB == "\t"

\* \s on str patterns
Whitespace == {" ", NL, TAB}

\* [a-zA-Z]
Letters ==
    {"a","b","c","d","e","f","g","h","i","j","k","l","m",
     "n","o","p","q","r","s","t","u","v","w","x","y","z",
     "A","B","C","D","E","F","G","H","I","J","K","L","M",
     "N","O","P","Q","R","S","T","U","V","W","X","Y","Z"}

----------------------------------------------------------------------------
(* Pattern elements                                                        *)

\* a literal run of characters
Lit(str) == [t |-> "lit", s |-> str, cls |-> "", c |-> "", min |-> 0, lazy |-> FALSE]
\* a quantified character class: cls is "dot" (. without DOTALL), "any"
\* (. with DOTALL), "ws" (\s), "letter" ([a-zA-Z]) or "not" ([^c])
Rep(cls, c, min, lazy) ==
    [t |-> "rep", s |-> <<>>, cls |-> cls, c |-> c, min |-> min, lazy |-> lazy]
\* ( and ) of group 1
Open == [t |-> "open", s |-> <<>>, cls |-> "", c |-> "", min |-> 0, lazy |-> FALSE]
Close == [t |-> "close", s |-> <<>>, cls |-> "", c |-> "", min |-> 0, lazy |-> FALSE]
\* ^ and $ under re.MULTILINE
Bol == [t |-> "bol", s |-> <<>>, cls |-> "", c |-> "", min |-> 0, lazy |-> FALSE]
Eol == [t |-> "eol", s |-> <<>>, cls |-> "", c |-> "", min |-> 0, lazy |-> FALSE]

LazyDot == Rep("dot", "", 0, TRUE)        \* .*?
LazyAny == Rep("any", "", 0, TRUE)        \* .*? with re.DOTALL
GreedyDot == Rep("dot", "", 0, FALSE)     \* .*
WsStar == Rep("ws", "", 0, FALSE)         \* \s*
WsPlus == Rep("ws", "", 1, FALSE)         \* \s+
LettersPlus == Rep("letter", "", 1, FALSE) \* [a-zA-Z]+
NotStar(ch) == Rep("not", ch, 0, FALSE)   \* [^ch]*
NotLazy(ch) == Rep("not", ch, 0, TRUE)    \* [^ch]*?

InClass(e, ch) ==
    CASE e.cls = "dot" -> ch # NL
      [] e.cls = "any" -> TRUE
      [] e.cls = "ws" -> ch \in Whitespace
      [] e.cls = "letter" -> ch \in Letters
      [] e.cls = "not" -> ch # e.c
      [] OTHER -> FALSE

----------------------------------------------------------------------------
(* The matcher                                                             *)

\* a failed match; a successful one is <<next position, group start, group end>>
Fail == <<0, 0, 0>>

IsPrefixAt(lit, s, i) ==
    /\ i + Len(lit) - 1 <= Len(s)
    /\ \A j \in 1..Len(lit) : s[i + j - 1] = lit[j]

Min(S) == CHOOSE x \in S : \A y \in S : x <= y
Max(S) == CHOOSE x \in S : \A y \in S : x >= y

\* how many characters from position i on are in the class of e
RunLen(e, s, i) ==
    Min({j \in i..(Len(s) + 1) : j = Len(s) + 1 \/ ~InClass(e, s[j])}) - i

RECURSIVE MatchAt(_, _, _, _, _, _)

\* the counts n in lo..hi of characters the quantifier p[k] can take at
\* position i so that the rest of the pattern matches
Takes(p, k, s, i, lo, hi) ==
    {n \in lo..hi : MatchAt(p, k + 1, s, i + n, 0, 0)[1] # 0}

\* pattern p from element k on, at position i of s; a lazy quantifier takes
\* the fewest characters that let the rest match, a greedy one the most
MatchAt(p, k, s, i, gs, ge) ==
    IF k > Len(p) THEN <<i, gs, ge>>
    ELSE LET e == p[k] IN
      CASE e.t = "lit" ->
             IF IsPrefixAt(e.s, s, i)
             THEN MatchAt(p, k + 1, s, i + Len(e.s), gs, ge) ELSE Fail
        [] e.t = "open" -> MatchAt(p, k + 1, s, i, i, ge)
        [] e.t = "close" -> MatchAt(p, k + 1, s, i, gs, i)
        [] e.t = "bol" ->
             IF i = 1 \/ s[i - 1] = NL
             THEN MatchAt(p, k + 1, s, i, gs, ge) ELSE Fail
        [] e.t = "eol" ->
             IF i = Len(s) + 1 \/ s[i] = NL
             THEN MatchAt(p, k + 1, s, i, gs, ge) ELSE Fail
        [] OTHER ->
             LET ok == Takes(p, k, s, i, e.min, RunLen(e, s, i)) IN
             IF ok = {} THEN Fail
             ELSE MatchAt(p, k + 1, s, i + (IF e.lazy THEN Min(ok) ELSE Max(ok)),
                          gs, ge)

\* a replacement template: the text pre, then group 1 when g1
Const(pre) == [pre |-> pre, g1 |-> FALSE]
Group(pre) == [pre |-> pre, g1 |-> TRUE]
Delete == Const(<<>>)

Expand(r, s, m) == r.pre \o (IF r.g1 THEN SubSeq(s, m[2], m[3] - 1) ELSE <<>>)

\* the leftmost position from i on where p matches, 0 when there is none
NextMatch(p, s, i) ==
    LET at == {j \in i..Len(s) : MatchAt(p, 1, s, j, 0, 0)[1] # 0}
    IN IF at = {} THEN 0 ELSE Min(at)

\* re.sub(p, r, s): every non-overlapping match, leftmost first, replaced
RECURSIVE SubFrom(_, _, _, _)
SubFrom(p, r, s, i) ==
    LET j == NextMatch(p, s, i) IN
    IF j = 0 THEN SubSeq(s, i, Len(s))
    ELSE LET m == MatchAt(p, 1, s, j, 0, 0) IN
         SubSeq(s, i, j - 1) \o Expand(r, s, m) \o SubFrom(p, r, s, m[1])

Sub(p, r, s) == IF s = <<>> THEN <<>> ELSE SubFrom(p, r, s, 1)

\* str.strip()
Strip(s) ==
    LET keep == {j \in 1..Len(s) : s[j] \notin Whitespace}
    IN IF keep = {} THEN <<>> ELSE SubSeq(s, Min(keep), Max(keep))

----------------------------------------------------------------------------
(* The literal texts of the patterns and replacements of the source        *)

W_documentclass ==
    <<BS, "d", "o", "c", "u", "m", "e", "n", "t", "c", "l", "a", "s", "s",
      "[">>
W_begin_document ==
    <<BS, "b", "e", "g", "i", "n", "{", "d", "o", "c", "u", "m", "e", "n",
      "t", "}">>
W_end_document ==
    <<BS, "e", "n", "d", "{", "d", "o", "c", "u", "m", "e", "n", "t", "}">>
W_myCover == <<BS, "m", "y", "C", "o", "v", "e", "r", "{">>
W_myChapterCover ==
    <<BS, "m", "y", "C", "h", "a", "p", "t", "e", "r", "C", "o", "v", "e",
      "r", "{", "}">>
W_newpage == <<BS, "n", "e", "w", "p", "a", "g", "e">>
W_section == <<BS, "s", "e", "c", "t", "i", "o", "n", "{">>
W_subsection == <<BS, "s", "u", "b", "s", "e", "c", "t", "i", "o", "n", "{">>
W_subsubsection ==
    <<BS, "s", "u", "b", "s", "u", "b", "s", "e", "c", "t", "i", "o", "n",
      "{">>
W_label == <<BS, "l", "a", "b", "e", "l", "{">>
W_cite == <<BS, "c", "i", "t", "e", "{">>
W_tilde_cite == <<"~", BS, "c", "i", "t", "e", "{">>
W_Cref == <<BS, "C", "r", "e", "f", "{">>
W_cref == <<BS, "c", "r", "e", "f", "{">>
W_begin_equation ==
    <<BS, "b", "e", "g", "i", "n", "{", "e", "q", "u", "a", "t", "i", "o",
      "n", "}">>
W_end_equation ==
    <<BS, "e", "n", "d", "{", "e", "q", "u", "a", "t", "i", "o", "n", "}">>
W_begin_align ==
    <<BS, "b", "e", "g", "i", "n", "{", "a", "l", "i", "g", "n", "}">>
W_end_align == <<BS, "e", "n", "d", "{", "a", "l", "i", "g", "n", "}">>
W_begin_split ==
    <<BS, "b", "e", "g", "i", "n", "{", "s", "p", "l", "i", "t", "}">>
W_end_split == <<BS, "e", "n", "d", "{", "s", "p", "l", "i", "t", "}">>
W_textit == <<BS, "t", "e", "x", "t", "i", "t", "{">>
W_textbf == <<BS, "t", "e", "x", "t", "b", "f", "{">>
W_text == <<BS, "t", "e", "x", "t", "{">>
W_begin_figure ==
    <<BS, "b", "e", "g", "i", "n", "{", "f", "i", "g", "u", "r", "e", "}">>
W_end_figure == <<BS, "e", "n", "d", "{", "f", "i", "g", "u", "r", "e", "}">>
W_begin_table ==
    <<BS, "b", "e", "g", "i", "n", "{", "t", "a", "b", "l", "e", "}">>
W_end_table == <<BS, "e", "n", "d", "{", "t", "a", "b", "l", "e", "}">>
W_begin_tabulary ==
    <<BS, "b", "e", "g", "i", "n", "{", "t", "a", "b", "u", "l", "a", "r",
      "y", "}">>
W_end_tabulary ==
    <<BS, "e", "n", "d", "{", "t", "a", "b", "u", "l", "a", "r", "y", "}">>
W_centering == <<BS, "c", "e", "n", "t", "e", "r", "i", "n", "g">>
W_includegraphics ==
    <<BS, "i", "n", "c", "l", "u", "d", "e", "g", "r", "a", "p", "h", "i",
      "c", "s", "[">>
W_caption == <<BS, "c", "a", "p", "t", "i", "o", "n", "{">>
W_toprule == <<BS, "t", "o", "p", "r", "u", "l", "e">>
W_midrule == <<BS, "m", "i", "d", "r", "u", "l", "e">>
W_bottomrule == <<BS, "b", "o", "t", "t", "o", "m", "r", "u", "l", "e">>
W_tensor == <<BS, "t", "e", "n", "s", "o", "r", "[">>
W_mathbf == <<BS, "m", "a", "t", "h", "b", "f", "{">>
W_vec == <<BS, "v", "e", "c", "{">>
W_left == <<BS, "l", "e", "f", "t">>
W_right == <<BS, "r", "i", "g", "h", "t">>
H1 == <<"#", " ">>
H2 == <<"#", "#", " ">>
H3 == <<"#", "#", "#", " ">>
EQN_HERE == <<"<", "E", "Q", "N", " ", "H", "E", "R", "E", ">">>

RBRACE == <<"}">>

\* \name\{.*?\}
BraceCommand(w) == <<Lit(w), LazyDot, Lit(RBRACE)>>
\* \name\[.*?\]\{.*?\}
OptionCommand(w) == <<Lit(w), LazyDot, Lit(<<"]", "{">>), LazyDot, Lit(RBRACE)>>
\* \begin\{env\}.*?\end\{env\} with re.DOTALL
Environment(b, e) == <<Lit(b), LazyAny, Lit(e)>>
\* \name\{([^}]*)\}
Unwrap(w) == <<Lit(w), Open, NotStar("}"), Close, Lit(RBRACE)>>
\* \name\{(.*?)\}
Heading(w) == <<Lit(w), Open, LazyDot, Close, Lit(RBRACE)>>
\* \name\{(.*?)\}\s*\\label\{.*?\}
LabeledHeading(w) == Heading(w) \o <<WsStar>> \o BraceCommand(W_label)

----------------------------------------------------------------------------
(* clean_math_content                                                      *)

\* \\[a-zA-Z]+\{([^}]*)\}
AnyCommandUnwrap ==
    <<Lit(<<BS>>), LettersPlus, Lit(<<"{">>), Open, NotStar("}"), Close, Lit(RBRACE)>>
\* \\[a-zA-Z]+
BareCommand == <<Lit(<<BS>>), LettersPlus>>

clean_math_content(math_text) ==
    LET m1 == Sub(AnyCommandUnwrap, Group(<<>>), math_text)
        m2 == Sub(BareCommand, Delete, m1)
        m3 == Sub(<<Lit(W_left)>>, Delete, m2)
        m4 == Sub(<<Lit(W_right)>>, Delete, m3)
        m5 == Sub(Unwrap(W_text), Group(<<>>), m4)
    IN Strip(m5)

----------------------------------------------------------------------------
(* The stages of process_latex_file, in the order of the source            *)

\* Remove LaTeX document structure
RemoveDocumentStructure(c) ==
    LET c1 == Sub(OptionCommand(W_documentclass), Delete, c)
        c2 == Sub(<<Lit(W_begin_document)>>, Delete, c1)
    IN Sub(<<Lit(W_end_document)>>, Delete, c2)

\* Remove comments: %.*$ with re.MULTILINE
RemoveComments(c) == Sub(<<Lit(<<"%">>), GreedyDot, Eol>>, Delete, c)

\* Remove custom commands and placeholders
RemoveCustomCommands(c) ==
    LET c1 == Sub(BraceCommand(W_myCover), Delete, c)
        c2 == Sub(<<Lit(W_myChapterCover)>>, Delete, c1)
    IN Sub(<<Lit(W_newpage)>>, Delete, c2)

\* Convert sections to markdown headers
ConvertSections(c) ==
    LET c1 == Sub(LabeledHeading(W_section), Group(H1), c)
        c2 == Sub(Heading(W_section), Group(H1), c1)
        c3 == Sub(LabeledHeading(W_subsection), Group(H2), c2)
        c4 == Sub(Heading(W_subsection), Group(H2), c3)
        c5 == Sub(LabeledHeading(W_subsubsection), Group(H3), c4)
    IN Sub(Heading(W_subsubsection), Group(H3), c5)

\* Remove labels without section headers
RemoveLabels(c) == Sub(BraceCommand(W_label), Delete, c)

\* Remove citations
RemoveCitations(c) ==
    LET c1 == Sub(BraceCommand(W_cite), Delete, c)
        c2 == Sub(BraceCommand(W_tilde_cite), Delete, c1)
        c3 == Sub(BraceCommand(W_Cref), Delete, c2)
    IN Sub(BraceCommand(W_cref), Delete, c3)

\* Replace equation blocks with placeholder
ReplaceEquationBlocks(c) ==
    LET c1 == Sub(Environment(W_begin_equation, W_end_equation), Const(EQN_HERE), c)
        c2 == Sub(Environment(W_begin_align, W_end_align), Const(EQN_HERE), c1)
    IN Sub(Environment(W_begin_split, W_end_split), Const(EQN_HERE), c2)

\* Handle inline math: \$([^$]*?)\$ replaced by
\* '$' + clean_math_content(m.group(1)) + '$'
InlineMath == <<Lit(<<"$">>), Open, NotLazy("$"), Close, Lit(<<"$">>)>>

RECURSIVE SubMathFrom(_, _)
SubMathFrom(s, i) ==
    LET j == NextMatch(InlineMath, s, i) IN
    IF j = 0 THEN SubSeq(s, i, Len(s))
    ELSE LET m == MatchAt(InlineMath, 1, s, j, 0, 0) IN
         SubSeq(s, i, j - 1)
         \o <<"$">> \o clean_math_content(SubSeq(s, m[2], m[3] - 1)) \o <<"$">>
         \o SubMathFrom(s, m[1])

HandleInlineMath(c) == IF c = <<>> THEN <<>> ELSE SubMathFrom(c, 1)

\* Remove other LaTeX formatting
RemoveFormatting(c) ==
    LET c1 == Sub(Unwrap(W_textit), Group(<<>>), c)
        c2 == Sub(Unwrap(W_textbf), Group(<<>>), c1)
    IN Sub(Unwrap(W_text), Group(<<>>), c2)

\* Remove figure environments
RemoveFigures(c) == Sub(Environment(W_begin_figure, W_end_figure), Delete, c)

\* Remove table environments
RemoveTables(c) ==
    LET c1 == Sub(Environment(W_begin_table, W_end_table), Delete, c)
    IN Sub(Environment(W_begin_tabulary, W_end_tabulary), Delete, c1)

\* Remove other LaTeX commands
RemoveOtherCommands(c) ==
    LET c1 == Sub(<<Lit(W_centering)>>, Delete, c)
        c2 == Sub(OptionCommand(W_includegraphics), Delete, c1)
        c3 == Sub(BraceCommand(W_caption), Delete, c2)
        c4 == Sub(<<Lit(W_toprule)>>, Delete, c3)
        c5 == Sub(<<Lit(W_midrule)>>, Delete, c4)
    IN Sub(<<Lit(W_bottomrule)>>, Delete, c5)

\* Remove tensor notation and other LaTeX-specific formatting
\* \\tensor\[.*?\]\{.*?\}\{.*?\}
TensorCommand ==
    OptionCommand(W_tensor) \o <<Lit(<<"{">>), LazyDot, Lit(RBRACE)>>

RemoveTensorNotation(c) ==
    LET c1 == Sub(TensorCommand, Delete, c)
        c2 == Sub(Unwrap(W_mathbf), Group(<<>>), c1)
    IN Sub(Unwrap(W_vec), Group(<<>>), c2)

\* Clean up extra whitespace and empty lines
\* \n\s*\n\s*\n
BlankLines == <<Lit(<<NL>>), WsStar, Lit(<<NL>>), WsStar, Lit(<<NL>>)>>

CleanWhitespace(c) ==
    LET c1 == Sub(BlankLines, Const(<<NL, NL>>), c)
        c2 == Sub(<<Bol, WsPlus>>, Delete, c1)
    IN Sub(<<WsPlus, Eol>>, Delete, c2)

\* Remove any remaining LaTeX commands (catch-all): \\[a-zA-Z]+\{.*?\}
AnyBraceCommand == <<Lit(<<BS>>), LettersPlus, Lit(<<"{">>), LazyDot, Lit(RBRACE)>>

CatchAll(c) ==
    LET c1 == Sub(AnyBraceCommand, Delete, c)
    IN Sub(BareCommand, Delete, c1)

\* Final cleanup
FinalCleanup(c) == Strip(c)

NumStages == 16

\* stage k of the pipeline applied to the buffer
Stage(k, c) ==
    CASE k = 1 -> RemoveDocumentStructure(c)
      [] k = 2 -> RemoveComments(c)
      [] k = 3 -> RemoveCustomCommands(c)
      [] k = 4 -> ConvertSections(c)
      [] k = 5 -> RemoveLabels(c)
      [] k = 6 -> RemoveCitations(c)
      [] k = 7 -> ReplaceEquationBlocks(c)
      [] k = 8 -> HandleInlineMath(c)
      [] k = 9 -> RemoveFormatting(c)
      [] k = 10 -> RemoveFigures(c)
      [] k = 11 -> RemoveTables(c)
      [] k = 12 -> RemoveOtherCommands(c)
      [] k = 13 -> RemoveTensorNotation(c)
      [] k = 14 -> CleanWhitespace(c)
      [] k = 15 -> CatchAll(c)
      [] k = 16 -> FinalCleanup(c)

\* the text process_latex_file writes for the text it read
RECURSIVE RunStages(_, _)
RunStages(k, c) == IF k > NumStages THEN c ELSE RunStages(k + 1, Stage(k, c))

Convert(text) == RunStages(1, text)

----------------------------------------------------------------------------
(* main and process_latex_file as a state machine                          *)
(*                                                                         *)
(* A .tex file on disk is a sequence of fragments (runs of characters);    *)
(* f.read() returns their concatenation.  Files are named by their place   *)
(* in tex_files.                                                           *)

VARIABLES
    example_dir_exists, \* Path("_example").exists()
    tex_files,          \* the .tex files of the directory, in glob order
    written,            \* the .md file beside each .tex file
    mpc,                \* where main is: "start", "loop", "done"
    idx,                \* the place of the for loop in tex_files
    pc,                 \* where process_latex_file is: "idle", "read",
                        \* "stage", "write", "returned", "raised"
    stage,              \* the stage that runs next while pc = "stage"
    content,            \* the local buffer of process_latex_file
    attempted,          \* the files process_latex_file was called on
    reported,           \* the files named in an "Error processing" line
    failed              \* the files whose processing raised

vars == <<example_dir_exists, tex_files, written, mpc, idx, pc, stage, content,
          attempted, reported, failed>>

NoFile == [exists |-> FALSE, text |-> <<>>]
File(text) == [exists |-> TRUE, text |-> text]

\* the text of a file: its fragments one after the other
RECURSIVE Text(_)
Text(frags) == IF frags = <<>> THEN <<>> ELSE Head(frags) \o Text(Tail(frags))

\* every sequence of at most n elements of F
SeqsUpTo(F, n) == UNION {[1..m -> F] : m \in 0..n}

\* the state main starts in, the directory holding one of the given file lists
InitWith(fileLists) ==
    /\ example_dir_exists \in BOOLEAN
    /\ tex_files \in (IF example_dir_exists THEN fileLists ELSE {<<>>})
    /\ written = [f \in 1..Len(tex_files) |-> NoFile]
    /\ mpc = "start"
    /\ idx = 0
    /\ pc = "idle"
    /\ stage = 0
    /\ content = <<>>
    /\ attempted = <<>>
    /\ reported = <<>>
    /\ failed = {}

\* if not example_dir.exists(): return
DirectoryMissing ==
    /\ mpc = "start" /\ ~example_dir_exists
    /\ mpc' = "done"
    /\ UNCHANGED <<example_dir_exists, tex_files, written, idx, pc, stage,
                   content, attempted, reported, failed>>

\* if not tex_files: return
NoTexFiles ==
    /\ mpc = "start" /\ example_dir_exists /\ tex_files = <<>>
    /\ mpc' = "done"
    /\ UNCHANGED <<example_dir_exists, tex_files, written, idx, pc, stage,
                   content, attempted, reported, failed>>

\* for tex_file in tex_files: the loop is entered
StartConversion ==
    /\ mpc = "start" /\ example_dir_exists /\ tex_files # <<>>
    /\ mpc' = "loop" /\ idx' = 1
    /\ UNCHANGED <<example_dir_exists, tex_files, written, pc, stage, content,
                   attempted, reported, failed>>

\* try: process_latex_file(str(tex_file), str(output_file))
CallProcess ==
    /\ mpc = "loop" /\ pc = "idle" /\ idx <= Len(tex_files)
    /\ pc' = "read"
    /\ attempted' = Append(attempted, idx)
    /\ UNCHANGED <<example_dir_exists, tex_files, written, mpc, idx, stage,
                   content, reported, failed>>

\* content = f.read()
ReadFile ==
    /\ pc = "read"
    /\ content' = Text(tex_files[idx])
    /\ pc' = "stage" /\ stage' = 1
    /\ UNCHANGED <<example_dir_exists, tex_files, written, mpc, idx, attempted,
                   reported, failed>>

\* open or read raises (unreadable file, undecodable bytes)
ReadError ==
    /\ pc = "read"
    /\ pc' = "raised" /\ failed' = failed \cup {idx}
    /\ UNCHANGED <<example_dir_exists, tex_files, written, mpc, idx, stage,
                   content, attempted, reported>>

\* stage k rewrites the buffer
RunStage(k) ==
    /\ pc = "stage" /\ stage = k
    /\ content' = Stage(k, content)
    /\ IF k = NumStages THEN pc' = "write" /\ stage' = 0
                        ELSE pc' = pc /\ stage' = k + 1
    /\ UNCHANGED <<example_dir_exists, tex_files, written, mpc, idx, attempted,
                   reported, failed>>

DoRemoveDocumentStructure == RunStage(1)
DoRemoveComments == RunStage(2)
DoRemoveCustomCommands == RunStage(3)
DoConvertSections == RunStage(4)
DoRemoveLabels == RunStage(5)
DoRemoveCitations == RunStage(6)
DoReplaceEquationBlocks == RunStage(7)
DoHandleInlineMath == RunStage(8)
DoRemoveFormatting == RunStage(9)
DoRemoveFigures == RunStage(10)
DoRemoveTables == RunStage(11)
DoRemoveOtherCommands == RunStage(12)
DoRemoveTensorNotation == RunStage(13)
DoCleanWhitespace == RunStage(14)
DoCatchAll == RunStage(15)
DoFinalCleanup == RunStage(16)

\* a stage raises (MemoryError on a large buffer): the local buffer is gone
ConversionError ==
    /\ pc = "stage"
    /\ pc' = "raised" /\ stage' = 0 /\ content' = <<>>
    /\ failed' = failed \cup {idx}
    /\ UNCHANGED <<example_dir_exists, tex_files, written, mpc, idx, attempted,
                   reported>>

\* f.write(content), then the function returns
WriteFile ==
    /\ pc = "write"
    /\ written' = [written EXCEPT ![idx] = File(content)]
    /\ pc' = "returned" /\ content' = <<>>
    /\ UNCHANGED <<example_dir_exists, tex_files, mpc, idx, stage, attempted,
                   reported, failed>>

\* open(output_file, 'w') raises and leaves the destination alone, or
\* f.write raises after open has truncated it
WriteError ==
    /\ pc = "write"
    /\ \E truncated \in BOOLEAN :
         written' = IF truncated THEN [written EXCEPT ![idx] = File(<<>>)]
                    ELSE written
    /\ pc' = "raised" /\ content' = <<>>
    /\ failed' = failed \cup {idx}
    /\ UNCHANGED <<example_dir_exists, tex_files, mpc, idx, stage, attempted,
                   reported>>

\* what main does with an exception of process_latex_file on file i:
\* except Exception as e: print(f"Error processing {tex_file}: {e}"), and
\* the loop goes on
OnExceptionPropagates(i, rep) == [mpc |-> "done", idx |-> i, reported |-> rep]
OnException(i, rep) == [mpc |-> "loop", idx |-> i + 1, reported |-> Append(rep, i)]

ExceptHandler ==
    /\ pc = "raised"
    /\ LET r == OnException(idx, reported) IN
         mpc' = r.mpc /\ idx' = r.idx /\ reported' = r.reported
    /\ pc' = "idle"
    /\ UNCHANGED <<example_dir_exists, tex_files, written, stage, content,
                   attempted, failed>>

\* process_latex_file returned: the next iteration
NextFile ==
    /\ pc = "returned"
    /\ pc' = "idle" /\ idx' = idx + 1
    /\ UNCHANGED <<example_dir_exists, tex_files, written, mpc, stage, content,
                   attempted, reported, failed>>

\* the loop is over: the closing summary
Finish ==
    /\ mpc = "loop" /\ pc = "idle" /\ idx > Len(tex_files)
    /\ mpc' = "done"
    /\ UNCHANGED <<example_dir_exists, tex_files, written, idx, pc, stage,
                   content, attempted, reported, failed>>

Next ==
    \/ DirectoryMissing
    \/ NoTexFiles
    \/ StartConversion
    \/ CallProcess
    \/ ReadFile
    \/ ReadError
    \/ DoRemoveDocumentStructure
    \/ DoRemoveComments
    \/ DoRemoveCustomCommands
    \/ DoConvertSections
    \/ DoRemoveLabels
    \/ DoRemoveCitations
    \/ DoReplaceEquationBlocks
    \/ DoHandleInlineMath
    \/ DoRemoveFormatting
    \/ DoRemoveFigures
    \/ DoRemoveTables
    \/ DoRemoveOtherCommands
    \/ DoRemoveTensorNotation
    \/ DoCleanWhitespace
    \/ DoCatchAll
    \/ DoFinalCleanup
    \/ ConversionError
    \/ WriteFile
    \/ WriteError
    \/ ExceptHandler
    \/ NextFile
    \/ Finish

----------------------------------------------------------------------------
(* The batch: up to MaxFiles files drawn from a few short texts            *)

MaxFiles == 3

BatchTexts ==
    {<<>>,
     <<W_section \o <<"A">> \o RBRACE>>,
     <<<<"a">>, W_cite \o <<"k">> \o RBRACE>>}

Init == InitWith(SeqsUpTo(BatchTexts, MaxFiles))

Spec == Init /\ [][Next]_vars

\* a run of one file: the file was read, converted and written
Converted == mpc = "done" /\ Len(tex_files) = 1 /\ failed = {}
\* its fragments and the text written for it
Input == tex_files[1]
Output == written[1].text

Range(seq) == {seq[j] : j \in 1..Len(seq)}

\* C7: a failure on one file never aborts the batch: every file that raised
\* is caught and named in an error line (or its exception is in flight to
\* the handler), only such files are, and once main is over every
\* discovered file was attempted, in order, those after a failing one too.
BatchNeverAborts ==
    /\ \A f \in failed : f \in Range(reported) \/ (pc = "raised" /\ idx = f)
    /\ Range(reported) \subseteq failed
    /\ (mpc = "done" /\ example_dir_exists)
          => attempted = [j \in 1..Len(tex_files) |-> j]

\* a batch whose first file raised and whose later files were written
FailureThenSuccess ==
    /\ mpc = "done" /\ Len(tex_files) >= 2
    /\ 1 \in failed /\ reported = <<1>>
    /\ written[2].exists /\ written[2].text = <<"#", " ", "A">>

\* the directory holds no file or one file, whose fragments are one of docs
OneFile(docs) == InitWith({<<>>} \cup {<<d>> : d \in docs})

----------------------------------------------------------------------------
(* Citations, labels and cross-references                                  *)

MaxCiteFrags == 3

TILDE == <<"~">>
CiteCommands ==
    {W_cite \o <<"k">> \o RBRACE, W_label \o <<"k">> \o RBRACE,
     W_cref \o <<"k">> \o RBRACE, W_Cref \o <<"k">> \o RBRACE}
CiteFrags == CiteCommands \cup {TILDE, <<"A">>, <<" ">>}

InitCite == OneFile(SeqsUpTo(CiteFrags, MaxCiteFrags))
SpecCite == InitCite /\ [][Next]_vars

CiteK == W_cite \o <<"k">> \o RBRACE

\* every tilde of the file is the prefix of a \cite command, the variant
\* the source has a rule for
TildesPrefixCite(doc) ==
    \A j \in 1..Len(doc) : doc[j] = TILDE => (j < Len(doc) /\ doc[j + 1] = CiteK)

\* C1: of a text made of plain text and of \cite, \label, \cref and \Cref
\* commands, the \cite ones possibly prefixed by a tilde, only the plain text
\* is left in the output: no command name, no key, no brace, no tilde.
CitationsLeaveNoResidue ==
    (Converted /\ TildesPrefixCite(Input))
        => \A j \in 1..Len(Output) : Output[j] \in {"A", " "}

----------------------------------------------------------------------------
(* Blank lines                                                             *)

MaxBlankFrags == 6

BlankFrags == {<<"A">>, <<NL>>, <<" ">>}

InitBlank == OneFile(SeqsUpTo(BlankFrags, MaxBlankFrags))
SpecBlank == InitBlank /\ [][Next]_vars

\* two paragraphs with three or more blank lines (four or more newlines)
\* between them
ParagraphsFarApart(doc) ==
    /\ Len(doc) >= 6
    /\ doc[1] = <<"A">> /\ doc[Len(doc)] = <<"A">>
    /\ \A j \in 2..(Len(doc) - 1) : doc[j] = <<NL>>

\* C2: two paragraphs separated by three or more blank lines are written
\* separated by exactly one blank line, that is by exactly two newlines.
BlankLinesCollapseToOne ==
    (Converted /\ ParagraphsFarApart(Input)) => Output = <<"A", NL, NL, "A">>

----------------------------------------------------------------------------
(* Headings                                                                *)

MaxHeadFrags == 3

SectionA == W_section \o <<"A">> \o RBRACE
SubsectionB == W_subsection \o <<"B">> \o RBRACE
SubsubsectionC == W_subsubsection \o <<"C">> \o RBRACE
HeadingCommands == {SectionA, SubsectionB, SubsubsectionC}
LabelL == W_label \o <<"L">> \o RBRACE

HeadFrags == HeadingCommands \cup {LabelL, <<NL>>, <<" ">>}

InitHead == OneFile(SeqsUpTo(HeadFrags, MaxHeadFrags))
SpecHead == InitHead /\ [][Next]_vars

\* the n-th smallest element of a set of numbers
Nth(S, n) == CHOOSE x \in S : Cardinality({y \in S : y <= x}) = n

\* the lines of a text
Lines(s) ==
    LET nl == {j \in 1..Len(s) : s[j] = NL}
        cnt == Cardinality(nl) + 1
        first(n) == IF n = 1 THEN 1 ELSE Nth(nl, n - 1) + 1
        last(n) == IF n = cnt THEN Len(s) ELSE Nth(nl, n) - 1
    IN [n \in 1..cnt |-> SubSeq(s, first(n), last(n))]

IsHeadingLine(l) == l # <<>> /\ l[1] = "#"
IsHeadingCommand(f) == f \in HeadingCommands

\* the heading line a sectioning command stands for
Markdown(f) ==
    CASE f = SectionA -> H1 \o <<"A">>
      [] f = SubsectionB -> H2 \o <<"B">>
      [] f = SubsubsectionC -> H3 \o <<"C">>

ExpectedHeadings(doc) ==
    LET cmds == SelectSeq(doc, IsHeadingCommand)
    IN [j \in 1..Len(cmds) |-> Markdown(cmds[j])]

\* C3: the heading lines of the output are, in order, one line per
\* sectioning command of the file, each the marker of the command's depth
\* followed by its title and nothing else, also when several commands,
\* labeled or not, stand on one line.
OneHeadingLinePerCommand ==
    Converted => SelectSeq(Lines(Output), IsHeadingLine) = ExpectedHeadings(Input)

----------------------------------------------------------------------------
(* Labeled headings                                                        *)

MaxTitleFrags == 2

TitleFrags ==
    {<<"a">>, <<" ">>, <<"{", "b", "}">>, W_textbf \o <<"c">> \o RBRACE}
LabelCommands == {LabelL, W_label \o <<"s", "e", "c", ":", "a">> \o RBRACE}

\* \section{T}\label{L}, and the same for the two other depths
LabeledDocs ==
    {<<h>> \o t \o <<RBRACE, l>> :
        h \in {W_section, W_subsection, W_subsubsection},
        t \in SeqsUpTo(TitleFrags, MaxTitleFrags),
        l \in LabelCommands}

InitLabeled == OneFile(LabeledDocs)
SpecLabeled == InitLabeled /\ [][Next]_vars

\* C4: a heading command immediately followed by a label command is written
\* as the heading command alone is.
LabeledHeadingAsPlain ==
    Converted => Output = Convert(Text(SubSeq(Input, 1, Len(Input) - 1)))

----------------------------------------------------------------------------
(* Block math environments                                                 *)

MaxInteriorFrags == 2

EscapedPercent == <<BS, "%">>
Equation == [b |-> W_begin_equation, e |-> W_end_equation]
Align == [b |-> W_begin_align, e |-> W_end_align]
Split == [b |-> W_begin_split, e |-> W_end_split]
MathEnvironments == {Equation, Align, Split}

\* what stands inside an environment: text, a line break, a comment up to
\* the end of its line, a label, a dollar sign, an escaped percent sign, an
\* environment of another kind
InteriorFrags(env) ==
    {<<"x">>, <<NL>>, <<"%", "c", NL>>, W_label \o <<"e">> \o RBRACE, <<"$">>,
     EscapedPercent}
    \cup {n.b \o <<"y">> \o n.e : n \in MathEnvironments \ {env}}

EnvironmentDocs ==
    UNION {{<<env.b>> \o body \o <<env.e>> :
                body \in SeqsUpTo(InteriorFrags(env), MaxInteriorFrags)} :
           env \in MathEnvironments}

InitEnvironment == OneFile(EnvironmentDocs)
SpecEnvironment == InitEnvironment /\ [][Next]_vars

\* C5: an equation, align or split environment, whatever stands inside it,
\* is written as one placeholder token and nothing else.
EnvironmentIsOnePlaceholder == Converted => Output = EQN_HERE

----------------------------------------------------------------------------
(* Converting the output again                                             *)

MaxIdemFrags == 5

UnknownX == <<BS, "f", "o", "o", "{", "x", "}">>
IdemFrags == {<<"a">>, <<NL>>, <<" ">>, <<"$">>, UnknownX}

InitIdem == OneFile(SeqsUpTo(IdemFrags, MaxIdemFrags))
SpecIdem == InitIdem /\ [][Next]_vars

\* C6: an output without a backslash is written unchanged when it is
\* converted again.
ConvertIsIdempotent ==
    (Converted /\ \A j \in 1..Len(Output) : Output[j] # BS)
        => Convert(Output) = Output

----------------------------------------------------------------------------
(* Inline math                                                             *)

MaxMathFrags == 2

DOLLAR == <<"$">>
TheValue == <<"T", "h", "e", " ", "v", "a", "l", "u", "e", " ">>
IsLarge == <<" ", "i", "s", " ", "l", "a", "r", "g", "e">>
CiteFoo == W_cite \o <<"f", "o", "o">> \o RBRACE
Period == <<".">>

\* what stands inside a span on one line: symbols, styled symbols, a
\* fraction, a Greek letter, an escaped percent sign
MathFrags ==
    {<<"v">>, <<" ">>, <<"+">>, W_mathbf \o <<"v">> \o RBRACE,
     <<BS, "a", "l", "p", "h", "a">>,
     <<BS, "f", "r", "a", "c", "{", "a", "}", "{", "b", "}">>,
     EscapedPercent}

\* The value $s$ is large\cite{foo}.
MathDocs ==
    {<<TheValue, DOLLAR>> \o s \o <<DOLLAR, IsLarge, CiteFoo, Period>> :
        s \in SeqsUpTo(MathFrags, MaxMathFrags)}

InitMath == OneFile(MathDocs)
SpecMath == InitMath /\ [][Next]_vars

\* the interior of the span of a file of MathDocs
Span(doc) == Text(SubSeq(doc, 3, Len(doc) - 4))

\* C8: the span $s$ is written as $clean_math_content(s)$, both dollar
\* signs kept, and the text around it as it is without the citation.
InlineMathIsCleaned ==
    Converted
        => Output = TheValue \o DOLLAR \o clean_math_content(Span(Input))
                    \o DOLLAR \o IsLarge \o Period

----------------------------------------------------------------------------
(* Comments                                                                *)

MaxCommentFrags == 4

CommentFrags == {<<"a">>, <<"%">>, EscapedPercent, <<NL>>, <<" ">>}

InitComment == OneFile(SeqsUpTo(CommentFrags, MaxCommentFrags))
SpecComment == InitComment /\ [][Next]_vars

\* a percent sign that no backslash precedes
StartsComment(s, j) == s[j] = "%" /\ (j = 1 \/ s[j - 1] # BS)
\* position j lies between such a percent sign and the end of its line
InComment(s, j) ==
    \E c \in 1..j : StartsComment(s, c) /\ \A m \in c..j : s[m] # NL
\* s without its comments
Uncommented(s) ==
    LET keep == {j \in 1..Len(s) : ~InComment(s, j)}
    IN [n \in 1..Cardinality(keep) |-> s[Nth(keep, n)]]

\* C9: when the comment stage is over the buffer is the text of the file
\* without the text from each unescaped percent sign to the end of its line,
\* and nothing else is gone: an escaped percent sign starts no comment.
OnlyUnescapedCommentsRemoved ==
    (pc = "stage" /\ stage = 3) => content = Uncommented(Text(tex_files[idx]))

----------------------------------------------------------------------------
(* Commands without a rule                                                 *)

MaxArgFrags == 2

ArgFrags == {<<"a">>, <<" ">>, <<"{", "b", "}">>, EscapedPercent}
UnknownCommands ==
    {<<BS, "u", "n", "k", "n", "o", "w", "n", "C", "m", "d", "{">>,
     <<BS, "f", "o", "o", "{">>}
Before == {<<>>, <<"x", " ">>}
After == {<<>>, <<" ", "y">>}

\* text, \name{arg}, text
UnknownDocs ==
    {<<pre, cmd>> \o arg \o <<RBRACE, post>> :
        pre \in Before, cmd \in UnknownCommands,
        arg \in SeqsUpTo(ArgFrags, MaxArgFrags), post \in After}

InitUnknown == OneFile(UnknownDocs)
SpecUnknown == InitUnknown /\ [][Next]_vars

\* C10: a command without a rule goes with its argument: the output is the
\* text that stood around it.
UnknownCommandFullyRemoved ==
    Converted => Output = Strip(Input[1] \o Input[Len(Input)])

====
